---- MODULE Spec2Model ----
(***************************************************************************)
(* A model of pithos: the member store of liquid_democracy.py (delegate /  *)
(* constituents relationship) and the conversational dispatch of bot.py    *)
(* (command tree, help walk, motion wizard, session map).                  *)
(*                                                                         *)
(* Message texts are sequences of one-character strings, so that           *)
(* str.startswith, str.split, str.lower and int() are modelled by what     *)
(* they do to the characters.                                              *)
(***************************************************************************)
EXTENDS Integers, Sequences, FiniteSets, TLC

VARIABLES
    delegate,         \* User.delegate_id per member: <<>> (NULL) or <<id>>
    constituents,     \* User.constituents per member: the backref list
    delegation_type,  \* User.delegation_type per member: <<>> or <<type>>
    votes,            \* the Vote objects created, in the order of creation
    user_votes,       \* User.votes per member: Vote objects, by their number
    motion_votes,     \* Motion.votes per motion: Vote objects, by their number
    effective,        \* the resolver's memo: effective vote per resolved member
    flows,            \* PithosClient.flows: dict user id -> FlowNewMotion
    motions,          \* rows of the motions table (with their options)
    server,           \* PithosClient.server: <<>> (None) or <<"server">>
    motion_channel,   \* PithosClient.motion_channel: <<>> or <<"motion">>
    sent,             \* the messages the last handler passed to send_message
    tasks,            \* the steps suspended on a send, in the order they began
    detached,         \* sessions removed from flows that a task may still hold
    last,             \* what the last handler was given and how it ended
    steps             \* how many messages the bot has handled

vars == <<delegate, constituents, delegation_type, votes, user_votes,
          motion_votes, effective, flows, motions, server, motion_channel,
          sent, tasks, detached, last, steps>>

taskVars == <<tasks, detached>>
botVars == <<flows, motions, server, motion_channel, sent, taskVars>>
voteVars == <<votes, user_votes, motion_votes, effective>>
graphVars == <<delegate, constituents, delegation_type, voteVars>>

----------------------------------------------------------------------------
(* Bounds of the model *)

NumMembers == 3        \* members of the users table: 1..NumMembers
NumUsers == 2          \* chat users sending messages: 1..NumUsers
MaxSteps == 6          \* messages the bot handles at most
MaxNow == 1            \* datetime.now() ranges over 0..MaxNow half-days
MaxHelpTokens == 3     \* tokens following "help" at most
NumMotions == 2        \* motions votes are cast on: 1..NumMotions
NumOptions == 2        \* selections of a vote: 1..NumOptions
MaxVotes == 2          \* Vote objects created at most
NumVoters == 4         \* members of a resolution pass: 1..NumVoters
MaxDelegations == 3    \* members with a delegate in a resolution pass, at most
MaxDirect == 2         \* members with a direct vote in a resolution pass, at most
MaxTasks == 2          \* steps suspended on a send at a time, at most

Members == 1..NumMembers
Users == 1..NumUsers
Times == 0..MaxNow
MotionIds == 1..NumMotions
Voters == 1..NumVoters
Options == 1..NumOptions

----------------------------------------------------------------------------
(* Python's Optional: None is <<>>, a value v is <<v>> *)

None == <<>>
Some(v) == <<v>>

\* the record of the last handler: nothing handled yet
Idle == [op |-> "init", user |-> 0, content |-> <<>>, route |-> "none",
         leaf |-> None, args |-> <<>>, raised |-> "none", now |-> None]

\* a message that has arrived and is not handled yet
Arrived(u, content) == [Idle EXCEPT !.op = "arrived", !.user = u, !.content = content]

----------------------------------------------------------------------------
(* Characters and strings *)

UPPER == <<"A", "B", "C", "D", "E", "F", "G", "H", "I", "J", "K", "L", "M",
           "N", "O", "P", "Q", "R", "S", "T", "U", "V", "W", "X", "Y", "Z">>
LOWER == <<"a", "b", "c", "d", "e", "f", "g", "h", "i", "j", "k", "l", "m",
           "n", "o", "p", "q", "r", "s", "t", "u", "v", "w", "x", "y", "z">>
DIGITS == <<"0", "1", "2", "3", "4", "5", "6", "7", "8", "9">>

IsSpace(c) == c \in {" ", "\t", "\n"}
DigitMap == [c \in {DIGITS[i] : i \in 1..Len(DIGITS)} |->
               (CHOOSE i \in 1..Len(DIGITS) : DIGITS[i] = c) - 1]
IsDigit(c) == c \in DOMAIN DigitMap
DigitValue(c) == DigitMap[c]

\* str.lower() on one character
LowerMap == [c \in {UPPER[i] : i \in 1..Len(UPPER)} |->
               LOWER[CHOOSE i \in 1..Len(UPPER) : UPPER[i] = c]]
LowerChar(c) == IF c \in DOMAIN LowerMap THEN LowerMap[c] ELSE c

\* str.lower()
Lower(s) == [i \in 1..Len(s) |-> LowerChar(s[i])]

\* str.startswith(p)
StartsWith(s, p) == Len(s) >= Len(p) /\ SubSeq(s, 1, Len(p)) = p

\* s[n:]
DropFirst(s, n) == SubSeq(s, n + 1, Len(s))

\* str.split(): the maximal runs of non-whitespace characters
RECURSIVE SplitFrom(_, _, _)
SplitFrom(s, i, word) ==
    IF i > Len(s)
    THEN IF word = <<>> THEN <<>> ELSE <<word>>
    ELSE IF IsSpace(s[i])
         THEN IF word = <<>>
              THEN SplitFrom(s, i + 1, <<>>)
              ELSE <<word>> \o SplitFrom(s, i + 1, <<>>)
         ELSE SplitFrom(s, i + 1, Append(word, s[i]))

Split(s) == SplitFrom(s, 1, <<>>)

\* " ".join(words)
RECURSIVE Join(_)
Join(words) ==
    IF words = <<>> THEN <<>>
    ELSE IF Len(words) = 1 THEN words[1]
    ELSE words[1] \o <<" ">> \o Join(Tail(words))

\* str.strip()
RECURSIVE LStrip(_)
LStrip(s) == IF s # <<>> /\ IsSpace(s[1]) THEN LStrip(Tail(s)) ELSE s
RECURSIVE RStrip(_)
RStrip(s) ==
    IF s # <<>> /\ IsSpace(s[Len(s)]) THEN RStrip(SubSeq(s, 1, Len(s) - 1)) ELSE s
Strip(s) == RStrip(LStrip(s))

\* the value of a run of decimal digits with single underscores between them
RECURSIVE DigitsValue(_, _)
DigitsValue(s, acc) ==
    IF s = <<>> THEN acc
    ELSE IF s[1] = "_" THEN DigitsValue(Tail(s), acc)
    ELSE DigitsValue(Tail(s), 10 * acc + DigitValue(s[1]))

IsDigitRun(s) ==
    /\ s # <<>>
    /\ IsDigit(s[1])
    /\ IsDigit(s[Len(s)])
    /\ \A i \in 1..Len(s) : IsDigit(s[i]) \/ s[i] = "_"
    /\ \A i \in 1..(Len(s) - 1) : ~(s[i] = "_" /\ s[i + 1] = "_")

\* int(s): [ok |-> TRUE, value |-> n], or [ok |-> FALSE] for ValueError
ParseInt(s) ==
    LET t == Strip(s)
        signed == t # <<>> /\ t[1] \in {"+", "-"}
        body == IF signed THEN Tail(t) ELSE t
    IN  IF IsDigitRun(body)
        THEN [ok |-> TRUE,
              value |-> IF signed /\ t[1] = "-"
                        THEN 0 - DigitsValue(body, 0)
                        ELSE DigitsValue(body, 0)]
        ELSE [ok |-> FALSE]

----------------------------------------------------------------------------
(* The words and texts the users send *)

W_help == <<"h", "e", "l", "p">>
W_cancel == <<"c", "a", "n", "c", "e", "l">>
W_motion == <<"m", "o", "t", "i", "o", "n">>
W_list == <<"l", "i", "s", "t">>
W_new == <<"n", "e", "w">>
W_xyz == <<"x", "y", "z">>
W_NEW == <<"N", "E", "W">>
W_done == <<"d", "o", "n", "e">>
W_Done == <<"D", "o", "n", "e">>
W_green == <<"g", "r", "e", "e", "n">>
W_3 == <<"3">>
W_0 == <<"0">>
W_minus1 == <<"-", "1">>

\* config.discord.command_prefix
Prefix == <<"!">>

----------------------------------------------------------------------------
(* liquid_democracy.User: delegate and its backref constituents *)

Remove(list, x) ==
    LET keep == {i \in 1..Len(list) : list[i] # x}
        Nth(k) == CHOOSE i \in keep : Cardinality({j \in keep : j < i}) = k - 1
    IN  [k \in 1..Cardinality(keep) |-> list[Nth(k)]]

Contains(list, x) == \E i \in 1..Len(list) : list[i] = x

\* the backref's removal of member a from its former delegate's constituents
BackrefRemoveForget(cons, old, a) == cons

BackrefRemove(cons, old, a) ==
    IF old = None THEN cons
    ELSE [cons EXCEPT ![old[1]] = Remove(@, a)]

\* the backref's append of member a to its new delegate's constituents
BackrefAppend(cons, new, a) ==
    IF new = None THEN cons
    ELSE [cons EXCEPT ![new[1]] = Append(@, a)]

\* user_a.delegate = new   (new is None or Some(member)); the record of the
\* assignment keeps the delegate a had before it
SetDelegate(a, new) ==
    /\ delegate' = [delegate EXCEPT ![a] = new]
    /\ constituents' =
          IF delegate[a] = new THEN constituents
          ELSE BackrefAppend(BackrefRemove(constituents, delegate[a], a), new, a)
    /\ last' = [Idle EXCEPT !.op = "set_delegate", !.user = a, !.args = delegate[a]]
    /\ UNCHANGED <<delegation_type, voteVars, botVars, steps>>

----------------------------------------------------------------------------
(* liquid_democracy.Vote: user and motion with their collections votes *)

\* back_populates that leaves the collection of the other side alone
VoteAppendForget(collection, key, no) == collection

\* back_populates: the append of Vote object no to the collection votes of
\* the User or Motion it was given
VoteAppend(collection, key, no) == [collection EXCEPT ![key] = Append(@, no)]

\* Vote(user=u, motion=mo, selection=selection)
CreateVote(u, mo, selection) ==
    LET no == Len(votes) + 1
    IN  /\ votes' = Append(votes, [user_id |-> u, motion_id |-> mo,
                                   selection |-> selection])
        /\ user_votes' = VoteAppend(user_votes, u, no)
        /\ motion_votes' = VoteAppend(motion_votes, mo, no)
        /\ last' = [Idle EXCEPT !.op = "create_vote", !.user = u]
        /\ UNCHANGED <<delegate, constituents, delegation_type, effective,
                       botVars, steps>>

----------------------------------------------------------------------------
(* The vote resolver: the effective vote of each member on one motion *)

\* liquid_democracy.DelegationType
TRANSITIVE == "TRANSITIVE"
FIXED == "FIXED"

\* the motion the pass resolves
PassMotion == CHOOSE mo \in MotionIds : \A x \in MotionIds : mo <= x

\* the selection of the direct vote of member m on the motion, None if m
\* cast none
DirectVote(m) ==
    LET mine == {i \in 1..Len(motion_votes[PassMotion]) :
                    votes[motion_votes[PassMotion][i]].user_id = m}
        first == CHOOSE i \in mine : \A j \in mine : i <= j
    IN  IF mine = {} THEN None
        ELSE Some(votes[motion_votes[PassMotion][first]].selection)

\* the members of path from the first occurrence of member x on
CyclicPortion(path, x) ==
    LET at == CHOOSE i \in 1..Len(path) : path[i] = x /\ \A j \in 1..(i - 1) : path[j] # x
    IN  {path[i] : i \in at..Len(path)}

\* a walk that takes the first option when it closes a cycle
RECURSIVE WalkChain(_, _, _)
WalkChainCycleVotes(cur, path, cache) ==
    IF Contains(path, cur)
    THEN [value |-> Some(1), cycle |-> {}]
    ELSE IF cur \in DOMAIN cache THEN [value |-> cache[cur], cycle |-> {}]
    ELSE IF DirectVote(cur) # None THEN [value |-> DirectVote(cur), cycle |-> {}]
    ELSE IF delegate[cur] = None THEN [value |-> None, cycle |-> {}]
    ELSE WalkChain(delegate[cur][1], Append(path, cur), cache)

\* the walk along the delegate chain from member cur on; path holds the
\* members visited so far, cache the values memoized in this pass.  The
\* result: the value the walk ends with, and the members of the cyclic
\* portion if the walk closed a cycle.
WalkChain(cur, path, cache) ==
    IF Contains(path, cur)
    THEN [value |-> None, cycle |-> CyclicPortion(path, cur)]
    ELSE IF cur \in DOMAIN cache THEN [value |-> cache[cur], cycle |-> {}]
    ELSE IF DirectVote(cur) # None THEN [value |-> DirectVote(cur), cycle |-> {}]
    ELSE IF delegate[cur] = None THEN [value |-> None, cycle |-> {}]
    ELSE WalkChain(delegate[cur][1], Append(path, cur), cache)

\* the rules for one member that walk on through a FIXED delegation
ResolveMemberAllTransitive(m, cache) ==
    IF DirectVote(m) # None THEN [value |-> DirectVote(m), cycle |-> {}]
    ELSE IF delegate[m] = None THEN [value |-> None, cycle |-> {}]
    ELSE WalkChain(delegate[m][1], <<m>>, cache)

\* the rules for one member m: its direct vote; abstention without a
\* delegate; FIXED, the direct vote of its delegate; TRANSITIVE, the walk
ResolveMember(m, cache) ==
    IF DirectVote(m) # None THEN [value |-> DirectVote(m), cycle |-> {}]
    ELSE IF delegate[m] = None THEN [value |-> None, cycle |-> {}]
    ELSE IF delegation_type[m] = Some(FIXED)
    THEN [value |-> DirectVote(delegate[m][1]), cycle |-> {}]
    ELSE WalkChain(delegate[m][1], <<m>>, cache)

\* EffectiveVote(m) by the rules for one member, without a memo
EffectiveVote(m) == ResolveMember(m, <<>>).value

\* the memo after the value of member m and of the cyclic portion found
Memoize(cache, m, r) ==
    [x \in DOMAIN cache \cup {m} \cup r.cycle |->
        IF x \in DOMAIN cache THEN cache[x]
        ELSE IF x = m THEN r.value
        ELSE None]

\* one member of the pass resolved, with the memo of the members resolved
\* before it
Resolve(m) ==
    /\ m \notin DOMAIN effective
    /\ effective' = Memoize(effective, m, ResolveMember(m, effective))
    /\ last' = [Idle EXCEPT !.op = "resolve"]
    /\ UNCHANGED <<delegate, constituents, delegation_type, votes, user_votes,
                   motion_votes, botVars, steps>>

----------------------------------------------------------------------------
(* bot.Command: the registered command tree *)

\* PithosClient.commands, in the order of register_command
Commands == <<"help", "cancel", "motion">>

\* Command.subcommands of a node, in the order of add_sub_command
Subcommands(n) ==
    IF n = "motion" THEN <<"motion list", "motion new">> ELSE <<>>

\* Command.name()
Name(n) ==
    CASE n = "help" -> W_help
      [] n = "cancel" -> W_cancel
      [] n = "motion" -> W_motion
      [] n = "motion list" -> W_list
      [] n = "motion new" -> W_new

\* key in dict, dict[key] for a dict of commands keyed by name()
HasKey(nodes, key) == \E i \in 1..Len(nodes) : Name(nodes[i]) = key
Get(nodes, key) == nodes[CHOOSE i \in 1..Len(nodes) : Name(nodes[i]) = key]

\* Command.short_help()
ShortHelp(n) == [kind |-> "short_help", node |-> n]

\* Command.long_help(), overridden by CmdHelp
LongHelp(n) ==
    IF n = "help" THEN [kind |-> "help_long"]
    ELSE IF Subcommands(n) = <<>> THEN ShortHelp(n)
    ELSE [kind |-> "services", node |-> n,
          lines |-> [i \in 1..Len(Subcommands(n)) |-> ShortHelp(Subcommands(n)[i])]]

\* one call of send_message(to, text)
Msg(to, text) == [to |-> to, text |-> text]

----------------------------------------------------------------------------
(* bot.CmdHelp.execute_direct *)

\* the index the loop continues with: its body never assigns i
HelpNextIndex(i) == i

\* the while loop; i is the Python index, input[i] is input[i + 1] here
RECURSIVE HelpWalk(_, _, _)
HelpWalk(cmd, input, i) ==
    IF i < Len(input)
    THEN LET cmd_str == Lower(input[i + 1])
         IN  IF ~HasKey(Subcommands(cmd), cmd_str)
             THEN [kind |-> "no_such_sub_command",
                   so_far |-> Join(SubSeq(input, 1, i)),
                   cmd_str |-> cmd_str]
             ELSE HelpWalk(Get(Subcommands(cmd), cmd_str), input, HelpNextIndex(i))
    ELSE LongHelp(cmd)

\* the values of i, one for each time the loop body is entered
RECURSIVE HelpWalkIndices(_, _, _)
HelpWalkIndices(cmd, input, i) ==
    IF i < Len(input)
    THEN LET cmd_str == Lower(input[i + 1])
         IN  IF ~HasKey(Subcommands(cmd), cmd_str) THEN <<i>>
             ELSE <<i>> \o HelpWalkIndices(Get(Subcommands(cmd), cmd_str), input,
                                           HelpNextIndex(i))
    ELSE <<>>

\* the values of i in the loop of CmdHelp for the tokens after "help"
HelpIndices(input) ==
    IF input = <<>> \/ ~HasKey(Commands, Lower(input[1])) THEN <<>>
    ELSE HelpWalkIndices(Get(Commands, Lower(input[1])), input, 1)

\* the text CmdHelp sends for the tokens after "help"
HelpText(input) ==
    IF input = <<>>
    THEN [kind |-> "command_list",
          lines |-> [i \in 1..Len(Commands) |-> ShortHelp(Commands[i])]]
    ELSE LET cmd_str == Lower(input[1])
         IN  IF ~HasKey(Commands, cmd_str)
             THEN [kind |-> "no_such_command_try_help", cmd_str |-> cmd_str]
             ELSE HelpWalk(Get(Commands, cmd_str), input, 1)

----------------------------------------------------------------------------
(* Time: datetime values are counted in half-days, dates in whole days *)

\* datetime.timedelta(days=d)
Days(d) == d + d

\* what a Column(Date) keeps of a datetime: its date
DateOf(x) == x - (x % 2)

----------------------------------------------------------------------------
(* bot.CmdMotion.FlowNewMotion: the motion wizard *)

\* FlowNewMotion.__init__
NewFlow == [phase |-> 0, description |-> None, expiry |-> None, options |-> <<>>]

\* FlowNewMotion.is_finished
IsFinished(f) == f.phase = 5

\* input.lower() == "done"
IsDone(input) == Lower(input) = W_done

\* the Motion object of step's phase 4, as the row the commit writes
MotionRow(f) ==
    [description |-> f.description[1],
     expires |-> DateOf(f.expiry[1]),
     options |-> [i \in 1..Len(f.options) |->
                    [option_no |-> None, description |-> f.options[i]]]]

\* the text of the announcement
AnnounceText(f) ==
    [kind |-> "announce", description |-> f.description[1],
     options |-> f.options, expiry |-> f.expiry[1]]

\* the phase a non-numeric duration leaves the wizard in
InvalidNumberPhaseAbort(phase) == 5

InvalidNumberPhase(phase) == phase

\* FlowNewMotion.step(input) on session f; now is what datetime.now() gives,
\* commit_ok tells whether Session.commit() returns or raises, channel is
\* bot.motion_channel.  The result: the session after the step, the messages
\* sent, the rows committed, the clock value read (None if the clock was not
\* read) and the exception that left the step ("none" if it returned).
Step(f, input, now, commit_ok, channel) ==
    CASE f.phase = 0 ->
           [flow |-> [f EXCEPT !.description = Some(input), !.phase = 1],
            sent |-> <<Msg("author", [kind |-> "ask_option", no |-> 1])>>,
            stored |-> <<>>, now |-> None, raised |-> "none"]
      [] f.phase = 1 ->
           [flow |-> [f EXCEPT !.options = Append(@, input), !.phase = 2],
            sent |-> <<Msg("author", [kind |-> "ask_option", no |-> 2])>>,
            stored |-> <<>>, now |-> None, raised |-> "none"]
      [] f.phase = 2 ->
           [flow |-> [f EXCEPT !.options = Append(@, input), !.phase = 3],
            sent |-> <<Msg("author", [kind |-> "ask_option_or_done", no |-> 3])>>,
            stored |-> <<>>, now |-> None, raised |-> "none"]
      [] f.phase = 3 ->
           IF IsDone(input)
           THEN [flow |-> [f EXCEPT !.phase = 4],
                 sent |-> <<Msg("author", [kind |-> "ask_days"])>>,
                 stored |-> <<>>, now |-> None, raised |-> "none"]
           ELSE [flow |-> [f EXCEPT !.options = Append(@, input)],
                 sent |-> <<Msg("author", [kind |-> "ask_option_or_done",
                                           no |-> Len(f.options) + 2])>>,
                 stored |-> <<>>, now |-> None, raised |-> "none"]
      [] f.phase = 4 ->
           LET duration == ParseInt(input)
           IN  IF ~duration.ok
               THEN [flow |-> [f EXCEPT !.phase = InvalidNumberPhase(f.phase)],
                     sent |-> <<Msg("author", [kind |-> "not_a_valid_number"])>>,
                     stored |-> <<>>, now |-> None, raised |-> "none"]
               ELSE LET g == [f EXCEPT !.expiry = Some(now + Days(duration.value)),
                                       !.phase = 5]
                    IN  IF ~commit_ok
                        THEN [flow |-> g, sent |-> <<>>, stored |-> <<>>,
                              now |-> Some(now), raised |-> "DatabaseError"]
                        ELSE IF channel = None
                        THEN [flow |-> g, sent |-> <<>>,
                              stored |-> <<MotionRow(g)>>,
                              now |-> Some(now), raised |-> "InvalidArgument"]
                        ELSE [flow |-> g,
                              sent |-> <<Msg("motion_channel", AnnounceText(g))>>,
                              stored |-> <<MotionRow(g)>>,
                              now |-> Some(now), raised |-> "none"]
      [] OTHER ->
           [flow |-> f, sent |-> <<>>, stored |-> <<>>, now |-> None,
            raised |-> "none"]

----------------------------------------------------------------------------
(* bot.PithosClient: the session map *)

\* PithosClient.start_flow(flow) for flow.user = u, overwriting a session
StartFlowOverwrite(fl, u, flow) ==
    [flows |-> [x \in DOMAIN fl \cup {u} |-> IF x = u THEN flow ELSE fl[x]],
     sent |-> <<>>]

\* PithosClient.start_flow(flow) for flow.user = u
StartFlow(fl, u, flow) ==
    IF u \in DOMAIN fl
    THEN [flows |-> fl,
          sent |-> <<Msg("author", [kind |-> "already_in_a_command"])>>]
    ELSE [flows |-> [x \in DOMAIN fl \cup {u} |-> IF x = u THEN flow ELSE fl[x]],
          sent |-> <<>>]

\* PithosClient.cancel_flow(user) that deletes nothing
CancelFlowKeep(fl, u) == fl

\* PithosClient.cancel_flow(user): del self.flows[user.id]
CancelFlow(fl, u) == [x \in DOMAIN fl \ {u} |-> fl[x]]

----------------------------------------------------------------------------
(* The leaf commands' execute_direct.  Each result: the session map after   *)
(* the command and the messages it sent.                                    *)

\* CmdHelp.execute_direct
HelpDirect(input, fl) ==
    [flows |-> fl, now |-> None, sent |-> <<Msg("channel", HelpText(input))>>]

\* CmdCancel.execute_direct that says nothing when there is no session
CancelDirectSilent(u, fl) ==
    IF u \notin DOMAIN fl
    THEN [flows |-> fl, now |-> None, sent |-> <<>>]
    ELSE [flows |-> CancelFlow(fl, u), now |-> None,
          sent |-> <<Msg("channel", [kind |-> "cancelled"])>>]

\* CmdCancel.execute_direct
CancelDirect(u, fl) ==
    IF u \notin DOMAIN fl
    THEN [flows |-> fl, now |-> None,
          sent |-> <<Msg("channel", [kind |-> "nothing_to_cancel"])>>]
    ELSE [flows |-> CancelFlow(fl, u), now |-> None,
          sent |-> <<Msg("channel", [kind |-> "cancelled"])>>]

\* CmdMotion.CmdMotionList.execute_direct
MotionListDirect(now, fl, rows) ==
    LET running == {i \in 1..Len(rows) : rows[i].expires > now}
    IN  [flows |-> fl, now |-> Some(now),
         sent |-> <<Msg("channel",
                        IF running = {}
                        THEN [kind |-> "no_running_motions"]
                        ELSE [kind |-> "motion_list", motions |-> running])>>]

\* CmdMotion.CmdMotionNew.execute_direct
MotionNewDirect(u, fl) ==
    LET started == StartFlow(fl, u, NewFlow)
    IN  [flows |-> started.flows, now |-> None,
         sent |-> <<Msg("channel", [kind |-> "will_ask_in_pm"]),
                    Msg("author", [kind |-> "ask_description"])>> \o started.sent]

\* Command.execute_direct of node n
ExecuteDirect(n, input, u, now, fl, rows) ==
    CASE n = "help" -> HelpDirect(input, fl)
      [] n = "cancel" -> CancelDirect(u, fl)
      [] n = "motion list" -> MotionListDirect(now, fl, rows)
      [] n = "motion new" -> MotionNewDirect(u, fl)
      [] OTHER -> [flows |-> fl, now |-> None, sent |-> <<>>]

\* Command.execute of node n; the result names the leaf that ran, if any
RECURSIVE Execute(_, _, _, _, _, _)
\* Command.execute that looks the token up as it was typed
ExecuteCaseSensitive(n, input, u, now, fl, rows) ==
    IF Subcommands(n) = <<>>
    THEN [leaf |-> Some(n), args |-> input] @@ ExecuteDirect(n, input, u, now, fl, rows)
    ELSE IF input = <<>>
    THEN [leaf |-> None, args |-> <<>>, flows |-> fl, now |-> None,
          sent |-> <<Msg("channel", [kind |-> "missing_sub_command",
                                     help |-> LongHelp(n)])>>]
    ELSE IF ~HasKey(Subcommands(n), input[1])
    THEN [leaf |-> None, args |-> <<>>, flows |-> fl, now |-> None,
          sent |-> <<Msg("channel", [kind |-> "not_a_valid_sub_command",
                                     help |-> LongHelp(n)])>>]
    ELSE Execute(Get(Subcommands(n), input[1]), Tail(input), u, now, fl, rows)

Execute(n, input, u, now, fl, rows) ==
    IF Subcommands(n) = <<>>
    THEN [leaf |-> Some(n), args |-> input] @@ ExecuteDirect(n, input, u, now, fl, rows)
    ELSE IF input = <<>>
    THEN [leaf |-> None, args |-> <<>>, flows |-> fl, now |-> None,
          sent |-> <<Msg("channel", [kind |-> "missing_sub_command",
                                     help |-> LongHelp(n)])>>]
    ELSE IF ~HasKey(Subcommands(n), Lower(input[1]))
    THEN [leaf |-> None, args |-> <<>>, flows |-> fl, now |-> None,
          sent |-> <<Msg("channel", [kind |-> "not_a_valid_sub_command",
                                     help |-> LongHelp(n)])>>]
    ELSE Execute(Get(Subcommands(n), Lower(input[1])), Tail(input), u, now, fl, rows)

----------------------------------------------------------------------------
(* bot.PithosClient.on_message *)

\* whether on_message takes the command branch for a message
TakesCommandBranchUnlessInFlow(content, u, fl) ==
    StartsWith(content, Prefix) /\ u \notin DOMAIN fl

TakesCommandBranch(content, u, fl) == StartsWith(content, Prefix)

\* the session map after a step that returned: a finished session is removed
Evict(fl, u) == IF IsFinished(fl[u]) THEN CancelFlow(fl, u) ELSE fl

\* on_message for a message of user u with text content, when datetime.now()
\* gives now and Session.commit() returns (commit_ok) or raises.  The result:
\* the session map, the rows committed, the messages sent, the branch taken
\* (route), the leaf command that ran with its arguments, the clock value
\* read (None if the clock was not read) and the exception that ended the
\* handler ("none" if it returned).
HandleMessage(u, content, now, commit_ok) ==
    IF TakesCommandBranch(content, u, flows)
    THEN LET parts == Split(DropFirst(content, Len(Prefix)))
         IN  IF parts = <<>>
             THEN [flows |-> flows, stored |-> <<>>, route |-> "command",
                   leaf |-> None, args |-> <<>>, now |-> None, raised |-> "none",
                   sent |-> <<Msg("channel", [kind |-> "missing_command"])>>]
             ELSE IF ~HasKey(Commands, Lower(parts[1]))
             THEN [flows |-> flows, stored |-> <<>>, route |-> "command",
                   leaf |-> None, args |-> <<>>, now |-> None, raised |-> "none",
                   sent |-> <<Msg("channel", [kind |-> "no_such_command",
                                              cmd |-> Lower(parts[1])])>>]
             ELSE [stored |-> <<>>, route |-> "command", raised |-> "none"]
                  @@ Execute(Get(Commands, Lower(parts[1])), Tail(parts), u, now,
                             flows, motions)
    ELSE IF u \in DOMAIN flows
    THEN LET r == Step(flows[u], content, now, commit_ok, motion_channel)
             stepped == [flows EXCEPT ![u] = r.flow]
         IN  [flows |-> IF r.raised = "none" THEN Evict(stepped, u) ELSE stepped,
              stored |-> r.stored, route |-> "flow", leaf |-> None, args |-> <<>>,
              now |-> r.now, raised |-> r.raised, sent |-> r.sent]
    ELSE [flows |-> flows, stored |-> <<>>, route |-> "ignored", leaf |-> None,
          args |-> <<>>, now |-> None, raised |-> "none", sent |-> <<>>]

\* the results on_message can have, over the answers of the clock and of the
\* database: one result if the handler does not read the clock (it commits
\* only after reading it)
Outcomes(u, content) ==
    LET first == HandleMessage(u, content, 0, TRUE)
    IN  IF first.now = None THEN {first}
        ELSE {HandleMessage(u, content, now, commit_ok) :
                 now \in Times, commit_ok \in BOOLEAN}

\* one inbound message handled from its arrival to the handler's end
OnMessage(u, content) ==
    \E r \in Outcomes(u, content) :
        /\ flows' = r.flows
        /\ motions' = motions \o r.stored
        /\ sent' = r.sent
        /\ last' = [op |-> "on_message", user |-> u, content |-> content,
                    route |-> r.route, leaf |-> r.leaf, args |-> r.args,
                    raised |-> r.raised, now |-> r.now]
        /\ UNCHANGED <<server, motion_channel, taskVars, graphVars>>

\* PithosClient.on_ready: the target server and its motion channel are found
\* or not (the archive channel, which no handler reads, is left out)
OnReady(server_found, motion_found) ==
    \E srv \in {IF server_found THEN Some("server") ELSE server} :
        /\ server' = srv
        /\ motion_channel' =
              IF srv = None THEN motion_channel
              ELSE IF motion_found THEN Some("motion") ELSE None
        /\ sent' = <<>>
        /\ last' = [op |-> "on_ready", user |-> 0, content |-> <<>>,
                    route |-> "none", leaf |-> None, args |-> <<>>,
                    raised |-> "none", now |-> None]
        /\ UNCHANGED <<flows, motions, taskVars, graphVars>>

----------------------------------------------------------------------------
(* bot.PithosClient.on_message as a task: the handler of a plain message     *)
(* runs up to the send its step awaits, other handlers run while it is      *)
(* suspended there, and it goes on from the send to its end.                *)

\* the phase step assigns after its send, None if it assigns none there
DeferredPhase(f, input) ==
    CASE f.phase \in {0, 1, 2} -> Some(f.phase + 1)
      [] f.phase = 3 /\ IsDone(input) -> Some(4)
      [] OTHER -> None

\* FlowNewMotion.step up to its send: the result of step, the phase it
\* assigns after the send still to come
StepBegin(f, input, now, commit_ok, channel) ==
    LET r == Step(f, input, now, commit_ok, channel)
    IN  IF DeferredPhase(f, input) = None THEN r
        ELSE [r EXCEPT !.flow = [r.flow EXCEPT !.phase = f.phase]]

\* the session object of member u: in the session map or removed from it
FlowOf(u) == IF u \in DOMAIN flows THEN flows[u] ELSE detached[u]

\* the sessions held aside after the session of member u left the map fl
Detach(det, fl, u) ==
    [x \in DOMAIN det \cup {u} |-> IF x = u THEN fl[u] ELSE det[x]]

\* if flow.is_finished(): self.cancel_flow(message.author), where del
\* raises KeyError for a member without an entry
Eviction(fl, det, u, finished) ==
    IF ~finished THEN [flows |-> fl, detached |-> det, raised |-> "none"]
    ELSE IF u \in DOMAIN fl
    THEN [flows |-> CancelFlow(fl, u), detached |-> Detach(det, fl, u),
          raised |-> "none"]
    ELSE [flows |-> fl, detached |-> det, raised |-> "KeyError"]

\* a command handled as a task: what it changes, it changes before its
\* first send ("motion new", which starts a session after two sends, is
\* not handled here)
TaskCommand(u, content) ==
    LET r == HandleMessage(u, content, 0, TRUE)
    IN  /\ r.leaf \notin {Some("motion new"), Some("motion list")}
        /\ flows' = r.flows
        /\ detached' = IF u \in DOMAIN flows /\ u \notin DOMAIN r.flows
                       THEN Detach(detached, flows, u) ELSE detached
        /\ sent' = r.sent
        /\ last' = [Idle EXCEPT !.op = "task_command", !.user = u,
                                !.content = content, !.route = r.route,
                                !.leaf = r.leaf]
        /\ UNCHANGED <<tasks, motions>>

\* a plain message of a member with a session: step runs up to its send
\* and is suspended there; a step without a send, or one that raised,
\* ends the handler at once
TaskStep(u, content) ==
    \E now \in Times, commit_ok \in BOOLEAN :
        LET r == StepBegin(flows[u], content, now, commit_ok, motion_channel)
            stepped == [flows EXCEPT ![u] = r.flow]
            suspends == r.raised = "none" /\ r.sent # <<>>
            e == IF r.raised = "none" /\ r.sent = <<>>
                 THEN Eviction(stepped, detached, u, IsFinished(r.flow))
                 ELSE [flows |-> stepped, detached |-> detached, raised |-> r.raised]
        IN  /\ r.now = None => (now = 0 /\ commit_ok)
            /\ suspends => Len(tasks) < MaxTasks
            /\ flows' = e.flows
            /\ detached' = e.detached
            /\ motions' = motions \o r.stored
            /\ sent' = r.sent
            /\ tasks' = IF suspends
                        THEN Append(tasks, [user |-> u,
                                            deferred |-> DeferredPhase(flows[u], content)])
                        ELSE tasks
            /\ last' = [Idle EXCEPT !.op = "task_step", !.user = u,
                                    !.content = content, !.route = "flow",
                                    !.raised = e.raised]

\* on_message up to its first send
TaskStart(u, content) ==
    /\ IF TakesCommandBranch(content, u, flows) THEN TaskCommand(u, content)
       ELSE IF u \in DOMAIN flows THEN TaskStep(u, content)
       ELSE /\ last' = [Idle EXCEPT !.op = "task_ignored", !.user = u,
                                    !.content = content, !.route = "ignored"]
            /\ sent' = <<>>
            /\ UNCHANGED <<flows, motions, tasks, detached>>
    /\ UNCHANGED <<server, motion_channel, graphVars>>

\* the i-th suspended step goes on from its send: the phase assignment
\* that follows the send, the return of step, and the eviction
TaskResume(i) ==
    LET u == tasks[i].user
        before == FlowOf(u)
        after == IF tasks[i].deferred = None THEN before
                 ELSE [before EXCEPT !.phase = tasks[i].deferred[1]]
        fl == IF u \in DOMAIN flows THEN [flows EXCEPT ![u] = after] ELSE flows
        det == IF u \in DOMAIN flows THEN detached
               ELSE [detached EXCEPT ![u] = after]
        e == Eviction(fl, det, u, IsFinished(after))
    IN  /\ flows' = e.flows
        /\ detached' = e.detached
        /\ tasks' = [k \in 1..(Len(tasks) - 1) |->
                        IF k < i THEN tasks[k] ELSE tasks[k + 1]]
        /\ sent' = <<>>
        /\ last' = [Idle EXCEPT !.op = "task_resume", !.user = u,
                                !.route = "flow", !.raised = e.raised]
        /\ UNCHANGED <<motions, server, motion_channel, graphVars>>

----------------------------------------------------------------------------
(* The messages the users send *)

\* texts that do not begin with the command prefix
PlainTexts == {W_green, W_done, W_Done, W_3}

\* texts that begin with the command prefix
CommandTexts ==
    {Prefix \o W_cancel,
     Prefix \o Join(<<W_motion, W_new>>)}

Contents == PlainTexts \cup CommandTexts

\* the words of a help path
HelpWords == {W_help, W_cancel, W_motion, W_list, W_new, W_NEW, W_xyz}

RECURSIVE SeqsUpTo(_, _)
SeqsUpTo(S, n) ==
    IF n = 0 THEN {<<>>}
    ELSE LET shorter == SeqsUpTo(S, n - 1)
         IN  shorter \cup {Append(q, x) : q \in shorter, x \in S}

HelpPaths == SeqsUpTo(HelpWords, MaxHelpTokens)

\* the texts dispatch is tried on: every path as a command, the plain texts
\* and two more durations
DispatchTexts ==
    {Prefix \o Join(path) : path \in HelpPaths} \cup PlainTexts \cup {W_0, W_minus1}

\* the session a member has after the plain texts inputs, from its start
RECURSIVE StepAll(_, _)
StepAll(f, inputs) ==
    IF inputs = <<>> THEN f
    ELSE StepAll(Step(f, Head(inputs), 0, TRUE, None).flow, Tail(inputs))

\* session maps the bot can be in when a message arrives: empty, or one
\* member in a wizard that awaits its description or its duration
Sessions ==
    {<<>>} \cup
    {[x \in {u} |-> f] :
        u \in Users,
        f \in {NewFlow, StepAll(NewFlow, <<W_green, W_green, W_green, W_done>>)}}

----------------------------------------------------------------------------
(* Specifications *)

InitBot ==
    /\ tasks = <<>>
    /\ detached = <<>>
    /\ flows = <<>>
    /\ motions = <<>>
    /\ server = None
    /\ motion_channel = None
    /\ sent = <<>>

InitVotes ==
    /\ votes = <<>>
    /\ user_votes = [m \in Members |-> <<>>]
    /\ motion_votes = [mo \in MotionIds |-> <<>>]
    /\ effective = <<>>

InitGraph ==
    /\ delegate = [m \in Members |-> None]
    /\ constituents = [m \in Members |-> <<>>]
    /\ delegation_type = [m \in Members |-> None]
    /\ InitVotes

Init == InitGraph /\ InitBot /\ last = Idle /\ steps = 0

\* the bot: the client's on_ready and MaxSteps messages of the users
Message ==
    /\ steps < MaxSteps
    /\ steps' = steps + 1
    /\ \E u \in Users, content \in Contents : OnMessage(u, content)

Ready ==
    /\ UNCHANGED steps
    /\ \E server_found, motion_found \in BOOLEAN : OnReady(server_found, motion_found)

Next == Message \/ Ready

Spec == Init /\ [][Next]_vars

\* the help command on every path of at most MaxHelpTokens words: the
\* message is drawn at the start and handled once
InitHelp ==
    /\ InitGraph
    /\ InitBot
    /\ steps = 0
    /\ \E u \in Users, path \in HelpPaths :
         last = Arrived(u, Prefix \o Join(<<W_help>> \o path))

HelpMessage ==
    /\ last.op = "arrived"
    /\ OnMessage(last.user, last.content)
    /\ UNCHANGED steps

NextHelp == HelpMessage

SpecHelp == InitHelp /\ [][NextHelp]_vars

\* dispatch of one message, a command on any path or a plain text, arriving
\* at a bot whose session map is one of Sessions
InitDispatch ==
    /\ InitGraph
    /\ motions = <<>>
    /\ server = None
    /\ motion_channel = None
    /\ sent = <<>>
    /\ steps = 0
    /\ flows \in Sessions
    /\ tasks = <<>>
    /\ detached = <<>>
    /\ \E u \in Users, content \in DispatchTexts : last = Arrived(u, content)

DispatchMessage ==
    /\ last.op = "arrived"
    /\ OnMessage(last.user, last.content)
    /\ UNCHANGED steps

NextDispatch == DispatchMessage

SpecDispatch == InitDispatch /\ [][NextDispatch]_vars

\* the texts of the messages handled as tasks
TaskTexts == {W_green, W_done, W_3, Prefix \o W_cancel}

\* messages handled as tasks that interleave at their sends, at a bot whose
\* session map is one of Sessions and whose motion channel was found or not
InitTasks ==
    /\ InitGraph
    /\ motions = <<>>
    /\ server \in {None, Some("server")}
    /\ motion_channel \in {None} \cup {Some("motion") : x \in {server} \ {None}}
    /\ sent = <<>>
    /\ steps = 0
    /\ flows \in Sessions
    /\ tasks = <<>>
    /\ detached = <<>>
    /\ last = Idle

Begin ==
    /\ steps < MaxSteps
    /\ steps' = steps + 1
    /\ \E u \in Users, content \in TaskTexts : TaskStart(u, content)

Resume ==
    /\ UNCHANGED steps
    /\ \E i \in 1..Len(tasks) : TaskResume(i)

NextTasks == Begin \/ Resume

SpecTasks == InitTasks /\ [][NextTasks]_vars

\* the member store: assignments of User.delegate
Assign ==
    \E a \in Members, new \in {None} \cup {Some(b) : b \in Members} :
        SetDelegate(a, new)

NextGraph == Assign

SpecGraph == Init /\ [][NextGraph]_vars

\* the members of S in ascending order
Ascending(S) ==
    [k \in 1..Cardinality(S) |->
        CHOOSE x \in S : Cardinality({y \in S : y < x}) = k - 1]

\* a resolution pass over a delegation graph without self-delegation, every
\* delegation TRANSITIVE or FIXED, and the direct votes on the motion
InitResolve ==
    /\ InitBot
    /\ last = Idle
    /\ steps = 0
    /\ delegate \in {d \in [Voters -> {None} \cup {Some(x) : x \in Voters}] :
                        /\ \A m \in Voters : d[m] # Some(m)
                        /\ Cardinality({m \in Voters : d[m] # None}) <= MaxDelegations}
    /\ delegation_type \in {t \in [Voters -> {None, Some(TRANSITIVE), Some(FIXED)}] :
                               \A m \in Voters : t[m] = None <=> delegate[m] = None}
    /\ constituents = [m \in Voters |-> Ascending({a \in Voters : delegate[a] = Some(m)})]
    /\ \E direct \in {d \in [Voters -> {0} \cup Options] :
                          Cardinality({m \in Voters : d[m] # 0}) <= MaxDirect} :
          LET cast == Ascending({m \in Voters : direct[m] # 0})
          IN  /\ votes = [i \in 1..Len(cast) |->
                             [user_id |-> cast[i], motion_id |-> PassMotion,
                              selection |-> direct[cast[i]]]]
              /\ user_votes = [m \in Voters |->
                                  IF direct[m] = 0 THEN <<>>
                                  ELSE <<CHOOSE i \in 1..Len(cast) : cast[i] = m>>]
              /\ motion_votes = [mo \in MotionIds |->
                                    IF mo = PassMotion THEN [i \in 1..Len(cast) |-> i]
                                    ELSE <<>>]
    /\ effective = <<>>

ResolveNext == \E m \in Voters : Resolve(m)

NextResolve == ResolveNext

SpecResolve == InitResolve /\ [][NextResolve]_vars

\* the vote store: creations of Vote objects
Cast ==
    /\ Len(votes) < MaxVotes
    /\ \E u \in Members, mo \in MotionIds, selection \in Options :
          CreateVote(u, mo, selection)

NextVotes == Cast

SpecVotes == Init /\ [][NextVotes]_vars

----------------------------------------------------------------------------
(* Properties of the member store *)

NoDuplicates(list) ==
    \A i, j \in 1..Len(list) : list[i] = list[j] => i = j

\* C1: the constituents relation is exactly the inverse of the delegate
\* relation (b's constituents list a, once, iff a's delegate is b); so right
\* after a's delegate is set to b, b's constituents contain a and the member
\* that was a's delegate before, if another one, no longer lists a.
C1_ConstituentsInverse ==
    /\ \A a, b \in Members :
          Contains(constituents[b], a) <=> delegate[a] = Some(b)
    /\ \A b \in Members : NoDuplicates(constituents[b])
    /\ last.op = "set_delegate" =>
          /\ delegate[last.user] # None =>
                Contains(constituents[delegate[last.user][1]], last.user)
          /\ (last.args # None /\ last.args # delegate[last.user]) =>
                ~Contains(constituents[last.args[1]], last.user)

\* C1 happens: a member that had a delegate was given another one
C1_Witness ==
    /\ last.op = "set_delegate"
    /\ last.args # None
    /\ delegate[last.user] # None
    /\ delegate[last.user] # last.args
    /\ Contains(constituents[delegate[last.user][1]], last.user)
    /\ Len(constituents[delegate[last.user][1]]) = 2

----------------------------------------------------------------------------
(* Properties of the session map and of the wizard *)

\* the message just handled came from u
Handled(u) == last'.op = "on_message" /\ last'.user = u

Reply(kind) == <<Msg("channel", [kind |-> kind])>>

\* C2: a "motion new" from a member who has a session is answered with
\* "already in a command" and leaves the session map, that member's session
\* included, as it was, whatever the session's phase.
C2_StartRejectedKeepsSession ==
    [][\A u \in Users :
          (Handled(u) /\ last'.leaf = Some("motion new") /\ u \in DOMAIN flows) =>
             /\ flows' = flows
             /\ motions' = motions
             /\ sent'[Len(sent')] = Msg("author", [kind |-> "already_in_a_command"])]_vars

\* C2 happens: a start was rejected for a session that had collected its
\* options and was awaiting its duration
C2_Witness ==
    /\ last.op = "on_message"
    /\ last.leaf = Some("motion new")
    /\ last.user \in DOMAIN flows
    /\ flows[last.user].phase = 4
    /\ Len(flows[last.user].options) = 2
    /\ Len(sent) = 3

\* C3: once the handling of a message has ended, the session map holds no
\* session whose is_finished() is true.
C3_NoFinishedSessionKept ==
    \A u \in DOMAIN flows : ~IsFinished(flows[u])

\* C4, as claimed: a message from a member who has a session goes to the
\* session's step, whatever its text.
C4_SessionFirst ==
    [][\A u \in Users :
          (Handled(u) /\ u \in DOMAIN flows) => last'.route = "flow"]_vars

\* C4, amended: a message goes to the command tree exactly when its text
\* begins with the command prefix, session or not; a message that does not
\* begin with it goes to its sender's session step if there is one, and is
\* ignored otherwise.
C4_PrefixFirst ==
    [][\A u \in Users :
          Handled(u) =>
             /\ StartsWith(last'.content, Prefix) => last'.route = "command"
             /\ (~StartsWith(last'.content, Prefix) /\ u \in DOMAIN flows) =>
                   last'.route = "flow" /\ last'.leaf = None
             /\ (~StartsWith(last'.content, Prefix) /\ u \notin DOMAIN flows) =>
                   last'.route = "ignored" /\ last'.leaf = None /\ flows' = flows]_vars

\* C4 happens: a plain text of a member in a session went to the step
C4_Witness ==
    /\ last.op = "on_message"
    /\ last.route = "flow"
    /\ last.user \in DOMAIN flows
    /\ flows[last.user].phase = 3
    /\ flows[last.user].options[2] = last.content

\* C5: "done", in any letter case, given to a session that has fewer than
\* 2 options leaves the phase as it is and is not stored as an option.
C5_EarlyDoneRejected ==
    [][\A u \in Users :
          (Handled(u) /\ last'.route = "flow" /\ IsDone(last'.content)
             /\ u \in DOMAIN flows /\ Len(flows[u].options) < 2) =>
             /\ u \in DOMAIN flows'
             /\ flows'[u].phase = flows[u].phase
             /\ flows'[u].options = flows[u].options]_vars

\* the row the claim expects of a session that was awaiting its duration
ExpectedRow(f, now, days) ==
    [description |-> f.description[1],
     expires |-> DateOf(now + Days(days)),
     options |-> [i \in 1..Len(f.options) |->
                    [option_no |-> None, description |-> f.options[i]]]]

\* C6: a step that makes the wizard finished has added exactly one row to
\* the motions table: the session's description, its options in order (at
\* least 2) and the date of now plus the entered days.
C6_FinishedMeansStored ==
    [][\A u \in Users :
          (Handled(u) /\ last'.route = "flow" /\ u \in DOMAIN flows
             /\ ~IsFinished(flows[u])
             /\ (u \notin DOMAIN flows' \/ IsFinished(flows'[u]))) =>
             /\ Len(flows[u].options) >= 2
             /\ Len(motions') = Len(motions) + 1
             /\ motions'[Len(motions')] =
                   ExpectedRow(flows[u], last'.now[1], ParseInt(last'.content).value)]_vars

\* C7: in the duration phase a text that int() rejects leaves the session,
\* the session map and the motions table as they were and is answered with
\* "Not a valid number"; a text that int() accepts finishes the session.
C7_InvalidDurationReprompts ==
    [][\A u \in Users :
          (Handled(u) /\ last'.route = "flow" /\ u \in DOMAIN flows
             /\ flows[u].phase = 4) =>
             IF ParseInt(last'.content).ok
             THEN u \notin DOMAIN flows' \/ IsFinished(flows'[u])
             ELSE /\ flows' = flows
                  /\ motions' = motions
                  /\ last'.raised = "none"
                  /\ sent' = <<Msg("author", [kind |-> "not_a_valid_number"])>>]_vars

\* C7 happens: a session awaiting its duration was given a text that is no
\* number and is still awaiting it
C7_Witness ==
    /\ last.op = "on_message"
    /\ last.route = "flow"
    /\ ~ParseInt(last.content).ok
    /\ last.user \in DOMAIN flows
    /\ flows[last.user].phase = 4
    /\ sent = <<Msg("author", [kind |-> "not_a_valid_number"])>>

\* C8: a cancel from a member who has a session removes exactly that
\* member's entry from the session map and replies "Cancelled"; a cancel
\* from a member who has none changes nothing and replies "Nothing to
\* cancel".
C8_CancelRemovesOwnSession ==
    [][\A u \in Users :
          (Handled(u) /\ last'.leaf = Some("cancel")) =>
             /\ motions' = motions
             /\ last'.raised = "none"
             /\ IF u \in DOMAIN flows
                THEN /\ sent' = Reply("cancelled")
                     /\ DOMAIN flows' = DOMAIN flows \ {u}
                     /\ \A x \in DOMAIN flows' : flows'[x] = flows[x]
                ELSE /\ sent' = Reply("nothing_to_cancel")
                     /\ flows' = flows]_vars

\* C8 happens: a member cancelled while another member's session went on
C8_Witness ==
    /\ last.op = "on_message"
    /\ last.leaf = Some("cancel")
    /\ sent = Reply("cancelled")
    /\ last.user \notin DOMAIN flows
    /\ \E x \in DOMAIN flows : flows[x].phase = 2

----------------------------------------------------------------------------
(* Properties of the help command *)

\* how many of the tokens, from the first, each name a child of the node
\* matched so far (the first a registered command)
RECURSIVE MatchedFrom(_, _, _)
MatchedFrom(children, tokens, k) ==
    IF k < Len(tokens) /\ HasKey(children, Lower(tokens[k + 1]))
    THEN MatchedFrom(Subcommands(Get(children, Lower(tokens[k + 1]))), tokens, k + 1)
    ELSE k

Matched(tokens) == MatchedFrom(Commands, tokens, 0)

\* the node the first k tokens lead to, k >= 1
RECURSIVE NodeFrom(_, _, _)
NodeFrom(children, tokens, k) ==
    IF k = 1 THEN Get(children, Lower(tokens[1]))
    ELSE NodeFrom(Subcommands(Get(children, Lower(tokens[1]))), Tail(tokens), k - 1)

HelpHandled == last.op = "on_message" /\ last.leaf = Some("help")

\* C9: help on a path of tokens that all match sends the long help of the
\* node the path leads to.
C9_HelpMostSpecific ==
    (HelpHandled /\ last.args # <<>> /\ Matched(last.args) = Len(last.args)) =>
        sent = <<Msg("channel", LongHelp(NodeFrom(Commands, last.args, Len(last.args))))>>

\* C10: help on a path whose first unknown token is at position i sends an
\* error that names that token and echoes the i tokens before it; with
\* i = 0, the "no such command, try help" message.
C10_HelpEchoesMatchedPrefix ==
    (HelpHandled /\ Matched(last.args) < Len(last.args)) =>
        LET i == Matched(last.args)
        IN  sent = <<Msg("channel",
                         IF i = 0
                         THEN [kind |-> "no_such_command_try_help",
                               cmd_str |-> Lower(last.args[1])]
                         ELSE [kind |-> "no_such_sub_command",
                               so_far |-> Join(SubSeq(last.args, 1, i)),
                               cmd_str |-> Lower(last.args[i + 1])])>>

----------------------------------------------------------------------------
(* Properties of command dispatch *)

\* the tokens of the command message that is being handled
Parts == Split(DropFirst(last'.content, Len(Prefix)))

\* C11: dispatch descends from the command the first token names through
\* the children the next tokens name, compared in lower case; reaching a
\* node without children it runs that node's action on all the tokens left;
\* stopping at a node with children (no token left, or one that names no
\* child) it sends exactly one message, which lists the short help of every
\* child, runs no leaf action and leaves sessions and motions as they were.
C11_DispatchSelectsChild ==
    [][(last'.op = "on_message" /\ last'.route = "command" /\ Matched(Parts) >= 1) =>
          LET k == Matched(Parts)
              node == NodeFrom(Commands, Parts, k)
              children == Subcommands(node)
          IN  IF children = <<>>
              THEN /\ last'.leaf = Some(node)
                   /\ last'.args = SubSeq(Parts, k + 1, Len(Parts))
              ELSE /\ last'.leaf = None
                   /\ Len(sent') = 1
                   /\ sent'[1].to = "channel"
                   /\ sent'[1].text.help.lines =
                         [i \in 1..Len(children) |-> ShortHelp(children[i])]
                   /\ flows' = flows
                   /\ motions' = motions]_vars

\* C11 happens: a child named in upper case was selected and ran with the
\* token that followed it
C11_Witness ==
    /\ last.op = "on_message"
    /\ last.content = Prefix \o Join(<<W_motion, W_NEW, W_xyz>>)
    /\ last.leaf = Some("motion new")
    /\ last.args = <<W_xyz>>
    /\ last.user \in DOMAIN flows

\* the message being handled, of member u, is one the bot rejects
Rejected(u) ==
    IF StartsWith(last'.content, Prefix)
    THEN \/ Parts = <<>>                                  \* empty command
         \/ Matched(Parts) = 0                            \* unknown command
         \/ /\ Matched(Parts) >= 1
            /\ LET node == NodeFrom(Commands, Parts, Matched(Parts))
               IN  \/ Subcommands(node) # <<>>            \* missing or unknown sub-command
                   \/ node = "help" /\ Matched(Tail(Parts)) < Len(Tail(Parts))
                                                         \* unknown help path
                   \/ node = "cancel" /\ u \notin DOMAIN flows
                   \/ node = "motion new" /\ u \in DOMAIN flows
    ELSE /\ u \in DOMAIN flows                            \* non-numeric duration
         /\ flows[u].phase = 4
         /\ ~ParseInt(last'.content).ok

\* C12: every rejected input (an empty command, an unknown command, a
\* missing or unknown sub-command, an unknown help path, a cancel without a
\* session, a wizard start during a session, a duration that is no number)
\* is answered with at least one message and its handler returns normally.
C12_RejectedInputAnswered ==
    [][\A u \in Users :
          (Handled(u) /\ Rejected(u)) =>
             /\ Len(sent') >= 1
             /\ last'.raised = "none"]_vars

\* C12 happens: a member in a wizard sent a command with an unknown
\* sub-command and was answered
C12_Witness ==
    /\ last.op = "on_message"
    /\ last.content = Prefix \o Join(<<W_motion, W_xyz>>)
    /\ last.user \in DOMAIN flows
    /\ last.raised = "none"
    /\ Len(sent) = 1
    /\ sent[1].text.kind = "not_a_valid_sub_command"

----------------------------------------------------------------------------
(* Properties of the member store: delegation *)

\* C13: an assignment that would make a member its own delegate is refused
\* and changes nothing, so no member is ever its own delegate.
C13_NoSelfDelegation ==
    \A m \in Members : delegate[m] # Some(m)

\* C14: a member whose delegate is set has its delegation type set.
C14_DelegateHasType ==
    \A m \in Members : delegate[m] # None => delegation_type[m] # None

----------------------------------------------------------------------------
(* Properties of the stored motions *)

\* C15: every motion the wizard stores has at least one option and an
\* expiry after the time of its creation, whatever number of days was
\* entered.
C15_StoredMotionExpiresLater ==
    [][\A i \in (Len(motions) + 1)..Len(motions') :
          /\ Len(motions'[i].options) >= 1
          /\ motions'[i].expires > last'.now[1]]_vars

----------------------------------------------------------------------------
(* Properties of the vote store *)

\* the numbers in a collection
Range(list) == {list[i] : i \in 1..Len(list)}

\* each member's collection holds exactly the votes created with that
\* member, each motion's exactly the votes created on it, each vote once
CollectionsExact ==
    /\ \A m \in Members :
          /\ NoDuplicates(user_votes[m])
          /\ Range(user_votes[m]) = {i \in 1..Len(votes) : votes[i].user_id = m}
    /\ \A mo \in MotionIds :
          /\ NoDuplicates(motion_votes[mo])
          /\ Range(motion_votes[mo]) = {i \in 1..Len(votes) : votes[i].motion_id = mo}

----------------------------------------------------------------------------
(* Properties of the vote resolver *)

\* the member k hops along the delegate chain of m, None where it has ended
RECURSIVE Hop(_, _)
Hop(m, k) ==
    IF k = 0 THEN Some(m)
    ELSE LET before == Hop(m, k - 1)
         IN  IF before = None THEN None ELSE delegate[before[1]]

\* the members of the delegation cycle member m lies on, {} if on none
CycleOf(m) ==
    IF \E k \in 1..NumVoters : Hop(m, k) = Some(m)
    THEN {Hop(m, k)[1] : k \in 1..(CHOOSE k \in 1..NumVoters :
                                       Hop(m, k) = Some(m)
                                       /\ \A j \in 1..(k - 1) : Hop(m, j) # Some(m))}
    ELSE {}

\* every member has been resolved
PassDone == DOMAIN effective = Voters

\* C17: the members of a delegation cycle none of whose members cast a
\* direct vote all resolve to abstention.
C17_CycleAbstains ==
    \A m \in DOMAIN effective :
        (CycleOf(m) # {} /\ \A x \in CycleOf(m) : DirectVote(x) = None) =>
            effective[m] = None

\* C17 happens: a pass is done on a graph with a cycle of three members
\* without votes, beside a member who voted
C17_Witness ==
    /\ PassDone
    /\ \E m \in Voters :
          /\ Cardinality(CycleOf(m)) = 3
          /\ \A x \in CycleOf(m) : DirectVote(x) = None /\ effective[x] = None
    /\ \E m \in Voters : DirectVote(m) # None

\* C18: a member without a direct vote whose delegation is FIXED resolves to
\* the direct vote of its delegate, and to abstention if the delegate cast
\* none, whatever the delegate's own delegation.
C18_FixedOneHop ==
    \A m \in DOMAIN effective :
        (DirectVote(m) = None /\ delegation_type[m] = Some(FIXED)) =>
            effective[m] = DirectVote(delegate[m][1])

\* C18 happens: A is FIXED to B, B is TRANSITIVE to C, only C voted; the
\* pass is done, B has C's vote and A abstains
C18_Witness ==
    /\ PassDone
    /\ \E a, b, c \in Voters :
          /\ delegate[a] = Some(b) /\ delegation_type[a] = Some(FIXED)
          /\ delegate[b] = Some(c) /\ delegation_type[b] = Some(TRANSITIVE)
          /\ \A x \in Voters : DirectVote(x) # None <=> x = c
          /\ effective[b] = DirectVote(c)
          /\ effective[a] = None

\* the direct vote of the first member along the delegate chain of m that
\* cast one, None if there is none
NearestVote(m) ==
    LET voted == {k \in 1..NumVoters :
                     Hop(m, k) # None /\ DirectVote(Hop(m, k)[1]) # None}
        nearest == CHOOSE k \in voted : \A j \in voted : k <= j
    IN  IF voted = {} THEN None ELSE DirectVote(Hop(m, nearest)[1])

\* C19: a member with a direct vote resolves to it; a member without one
\* whose delegation is TRANSITIVE resolves to the direct vote of the first
\* member along its delegate chain that cast one, and to abstention if the
\* chain ends or closes a cycle before such a member.
C19_TransitiveNearestVote ==
    \A m \in DOMAIN effective :
        /\ DirectVote(m) # None => effective[m] = DirectVote(m)
        /\ (DirectVote(m) = None /\ delegation_type[m] = Some(TRANSITIVE)) =>
              effective[m] = NearestVote(m)

\* C20: the value the pass memoizes for a member is the value the rules for
\* one member give it without a memo.
C20_MemoKeepsResults ==
    \A m \in DOMAIN effective : effective[m] = EffectiveVote(m)

----------------------------------------------------------------------------
(* Properties of the handlers as tasks *)

\* C21: cancel_flow is only invoked for a member who has an entry in the
\* session map: no eviction after a finished step fails on a session that
\* was removed while the step was suspended.
C21_EvictionFindsSession ==
    last.raised # "KeyError"

\* the session of member u is between steps: none of its steps is suspended
BetweenSteps(u) == \A i \in 1..Len(tasks) : tasks[i].user # u

\* the options collected match the phase
OptionsMatchPhase(f) ==
    /\ f.phase \in 0..5
    /\ f.phase \in {0, 1} => Len(f.options) = 0
    /\ f.phase = 2 => Len(f.options) = 1
    /\ f.phase \in {3, 4, 5} => Len(f.options) >= 2

\* C22: the phase of a session is in 0..5, no step lowers it or raises it
\* by more than 1, and between the steps of its member the options
\* collected match the phase (none in phases 0 and 1, one in phase 2, two
\* or more from phase 3 on), also when the member's steps interleave at
\* their sends.
C22_PhaseAndOptions ==
    [][\A u \in DOMAIN flows' :
          /\ BetweenSteps(u)' => OptionsMatchPhase(flows'[u])
          /\ u \in DOMAIN flows =>
                /\ flows'[u].phase >= flows[u].phase
                /\ flows'[u].phase <= flows[u].phase + 1]_vars

----------------------------------------------------------------------------
(* Properties of the help walk's loop *)

\* C23: the help command ends for every list of tokens, having sent exactly
\* one message, and each pass of its loop works on a token after the one
\* of the pass before: it never goes round without consuming a token.
C23_HelpWalkConsumesTokens ==
    HelpHandled =>
        /\ last.raised = "none"
        /\ Len(sent) = 1
        /\ LET passes == HelpIndices(last.args)
           IN  \A k \in 1..(Len(passes) - 1) : passes[k + 1] > passes[k]

====
